---- MODULE Spec2Model ----
(***************************************************************************)
(* A model of calibre's in-memory table cache, src/calibre/db/tables.py:   *)
(* the Table hierarchy (OneToOneTable, ManyToOneTable, ManyToManyTable,    *)
(* AuthorsTable, FormatsTable), their read() methods and the value         *)
(* adapters chosen in Table.__init__.                                      *)
(*                                                                         *)
(* One table object is modelled.  Its class is `kind`, its constructor     *)
(* arguments are `meta`, its instance attributes are id_map, extra_map,    *)
(* alink_map, col_book_map and book_col_map.  Each caller of read() is a   *)
(* thread t with a program counter pc[t] and the not yet consumed rows of  *)
(* its current query in cursor[t].  A step of a thread is one statement    *)
(* group of the method it is executing; the rows a query returns are       *)
(* chosen by the backing store, so they are drawn from bounded sets.       *)
(***************************************************************************)
EXTENDS Integers, Sequences, FiniteSets, TLC

VARIABLES
    kind,          \* class of the table object
    meta,          \* [name, datatype]: the constructor's name and metadata['datatype']
    hasattrs,      \* TRUE once read() has bound the map attributes on the object
    id_map,        \* self.id_map
    extra_map,     \* self.extra_map
    alink_map,     \* self.alink_map (AuthorsTable only)
    col_book_map,  \* self.col_book_map
    book_col_map,  \* self.book_col_map
    pc,            \* pc[t]: where thread t is inside read()
    cursor,        \* cursor[t]: rows of the running query not yet iterated
    outcome,       \* outcome[t]: how t's last read() call ended
    nreads,        \* number of read() calls started so far
    prev,          \* history: the object's attributes when the running/last read() was called
    qrows          \* history: qrows[t] = rows returned to t's running/last read()

vars == <<kind, meta, hasattrs, id_map, extra_map, alink_map, col_book_map,
          book_col_map, pc, cursor, outcome, nreads, prev, qrows>>

maps == <<id_map, extra_map, alink_map, col_book_map, book_col_map>>

----------------------------------------------------------------------------
(* Bounds *)

MaxBook == 2
MaxAttr == 2
MaxRows == 2
MaxIdRows == 1
MaxReads == 2

Books == 1..MaxBook
Attrs == 1..MaxAttr
Threads == DOMAIN pc

----------------------------------------------------------------------------
(* Values: what sqlite hands back (RawValue) and what Python stores. *)

Null == [t |-> "null"]
IntVal(n) == [t |-> "int", n |-> n]
TextVal(s) == [t |-> "text", s |-> s]
BoolVal(b) == [t |-> "bool", b |-> b]
DateVal(v) == [t |-> "datetime", of |-> v]
SortKeyVal(v) == [t |-> "author_sort", of |-> v]

RawValues == {Null, IntVal(0), TextVal(<<"a">>)}
NameValues == {Null, TextVal(<<>>), TextVal(<<"S">>), TextVal(<<"S", "|", "J">>)}
SortValues == {Null, TextVal(<<"J">>)}
LinkValues == {TextVal(<<>>)}
FormatValues == {Null, TextVal(<<"E">>), TextVal(<<"P">>)}
FileValues == {TextVal(<<"f">>), TextVal(<<"g">>)}

\* Python truth value of a database value: None, 0 and '' are falsy.
Truthy(v) ==
    CASE v.t = "null" -> FALSE
      [] v.t = "int" -> v.n # 0
      [] v.t = "text" -> Len(v.s) > 0
      [] v.t = "bool" -> v.b
      [] OTHER -> TRUE

\* str.replace('|', ','), character by character.
RECURSIVE replace_bar(_)
replace_bar(s) ==
    IF s = <<>> THEN <<>>
    ELSE <<IF Head(s) = "|" THEN "," ELSE Head(s)>> \o replace_bar(Tail(s))

\* _c_convert_timestamp: a falsy value is None; anything else is parsed (the
\* parsed instant is kept symbolic, tagged with the text it came from).
c_convert_timestamp(val) == IF ~Truthy(val) THEN Null ELSE DateVal(val)

\* self.adapt as chosen by Table.__init__.
adapt(m, x) ==
    IF m.name = "authors"
    THEN IF Truthy(x) THEN TextVal(replace_bar(x.s)) ELSE Null
    ELSE CASE m.datatype = "datetime" -> c_convert_timestamp(x)
           [] m.datatype = "bool" -> BoolVal(Truthy(x))
           [] OTHER -> x

\* author_to_author_sort (calibre.ebooks.metadata), kept symbolic.
author_to_author_sort(name) == SortKeyVal(name)

----------------------------------------------------------------------------
(* Python dict and list operations on the maps. *)

EmptyDict == <<>>

\* d[k] = v
dict_set(d, k, v) == [x \in (DOMAIN d) \cup {k} |-> IF x = k THEN v ELSE d[x]]

\* if k not in d: d[k] = []
dict_setdefault_list(d, k) == IF k \in DOMAIN d THEN d ELSE dict_set(d, k, <<>>)

\* d[k].append(v)
list_append_at(d, k, v) == dict_set(d, k, Append(d[k], v))

\* d.append(v) on a dict: dict has no attribute 'append', so the attribute
\* lookup raises AttributeError and d is left as it was.
dict_append(d, v) == [raised |-> TRUE, d |-> d]

SeqsUpTo(S, n) == UNION {[1..k -> S] : k \in 0..n}

OneToOneRows == Books \X RawValues
IdRows == Attrs \X NameValues
AuthorRows == Attrs \X NameValues \X SortValues \X LinkValues
LinkRows == Books \X Attrs
FormatRows == Books \X FormatValues \X FileValues

NoRows == [ids |-> <<>>, rows |-> <<>>]

Snapshot ==
    [hasattrs |-> hasattrs, id_map |-> id_map, extra_map |-> extra_map,
     col_book_map |-> col_book_map, book_col_map |-> book_col_map]

----------------------------------------------------------------------------
(* Control flow shared by the read() methods. *)

\* read() is entered by thread t.
Enter(t, next) ==
    /\ pc[t] = "idle"
    /\ nreads < MaxReads
    /\ nreads' = nreads + 1
    /\ prev' = Snapshot @@ [outcome |-> outcome[t]]
    /\ qrows' = [qrows EXCEPT ![t] = NoRows]
    /\ outcome' = [outcome EXCEPT ![t] = "none"]
    /\ pc' = [pc EXCEPT ![t] = next]
    /\ cursor' = [cursor EXCEPT ![t] = <<>>]

\* An exception leaves read(); nothing is caught or undone in tables.py.
Raise(t, exc) ==
    /\ pc' = [pc EXCEPT ![t] = "idle"]
    /\ outcome' = [outcome EXCEPT ![t] = exc]
    /\ cursor' = [cursor EXCEPT ![t] = <<>>]

\* read() returns normally.
Return(t) ==
    /\ pc' = [pc EXCEPT ![t] = "idle"]
    /\ outcome' = [outcome EXCEPT ![t] = "returned"]
    /\ cursor' = [cursor EXCEPT ![t] = <<>>]

----------------------------------------------------------------------------
(* OneToOneTable.read *)

\* read() that forgets `self.book_col_map = {}` and loads into the old dict.
OneToOneTable_read_noreset(t) ==
    /\ kind = "OneToOneTable"
    /\ Enter(t, "rows_query")
    /\ hasattrs' = TRUE
    /\ UNCHANGED <<kind, meta, maps>>

\* self.book_col_map = {}
OneToOneTable_read_reset(t) ==
    /\ kind = "OneToOneTable"
    /\ Enter(t, "rows_query")
    /\ book_col_map' = EmptyDict
    /\ hasattrs' = TRUE
    /\ UNCHANGED <<kind, meta, id_map, extra_map, alink_map, col_book_map>>

\* db.conn.execute('SELECT id|book, column FROM table'): rows, or an error.
OneToOneTable_read_query(t) ==
    /\ kind = "OneToOneTable"
    /\ pc[t] = "rows_query"
    /\ \/ \E rs \in SeqsUpTo(OneToOneRows, MaxRows) :
            /\ cursor' = [cursor EXCEPT ![t] = rs]
            /\ qrows' = [qrows EXCEPT ![t].rows = rs]
            /\ pc' = [pc EXCEPT ![t] = "rows"]
            /\ UNCHANGED outcome
       \/ /\ Raise(t, "DatabaseError")
          /\ UNCHANGED qrows
    /\ UNCHANGED <<kind, meta, hasattrs, maps, nreads, prev>>

\* self.book_col_map[row[0]] = self.adapt(row[1])
OneToOneTable_read_row(t) ==
    /\ kind = "OneToOneTable"
    /\ pc[t] = "rows"
    /\ cursor[t] # <<>>
    /\ LET row == Head(cursor[t]) IN
         book_col_map' = dict_set(book_col_map, row[1], adapt(meta, row[2]))
    /\ cursor' = [cursor EXCEPT ![t] = Tail(cursor[t])]
    /\ UNCHANGED <<kind, meta, hasattrs, id_map, extra_map, alink_map,
                   col_book_map, pc, outcome, nreads, prev, qrows>>

\* the for loop is exhausted
OneToOneTable_read_return(t) ==
    /\ kind = "OneToOneTable"
    /\ pc[t] = "rows"
    /\ cursor[t] = <<>>
    /\ Return(t)
    /\ UNCHANGED <<kind, meta, hasattrs, maps, nreads, prev, qrows>>

----------------------------------------------------------------------------
(* ManyToOneTable.read, inherited by ManyToManyTable, AuthorsTable and     *)
(* FormatsTable; read_id_maps and read_maps are dispatched on the class.   *)

LinkedKinds == {"ManyToOneTable", "ManyToManyTable", "AuthorsTable", "FormatsTable"}

\* self.id_map = {}; self.extra_map = {}; self.col_book_map = {};
\* self.book_col_map = {}; then self.read_id_maps(db) is called
ManyToOneTable_read_reset(t) ==
    /\ kind \in LinkedKinds
    /\ Enter(t, "id_query")
    /\ id_map' = EmptyDict
    /\ extra_map' = EmptyDict
    /\ col_book_map' = EmptyDict
    /\ book_col_map' = EmptyDict
    /\ hasattrs' = TRUE
    /\ UNCHANGED <<kind, meta, alink_map>>

\* ManyToOneTable.read_id_maps: db.conn.execute('SELECT id, name FROM table')
ManyToOneTable_read_id_maps_query(t) ==
    /\ kind \in {"ManyToOneTable", "ManyToManyTable"}
    /\ pc[t] = "id_query"
    /\ \/ \E rs \in SeqsUpTo(IdRows, MaxIdRows) :
            /\ cursor' = [cursor EXCEPT ![t] = rs]
            /\ qrows' = [qrows EXCEPT ![t].ids = rs]
            /\ pc' = [pc EXCEPT ![t] = "id_rows"]
            /\ UNCHANGED outcome
       \/ /\ Raise(t, "DatabaseError")
          /\ UNCHANGED qrows
    /\ UNCHANGED <<kind, meta, hasattrs, maps, nreads, prev>>

\* if row[1]: self.id_map[row[0]] = self.adapt(row[1])
ManyToOneTable_read_id_maps_row(t) ==
    /\ kind \in {"ManyToOneTable", "ManyToManyTable"}
    /\ pc[t] = "id_rows"
    /\ cursor[t] # <<>>
    /\ LET row == Head(cursor[t]) IN
         id_map' = IF Truthy(row[2])
                   THEN dict_set(id_map, row[1], adapt(meta, row[2]))
                   ELSE id_map
    /\ cursor' = [cursor EXCEPT ![t] = Tail(cursor[t])]
    /\ UNCHANGED <<kind, meta, hasattrs, extra_map, alink_map, col_book_map,
                   book_col_map, pc, outcome, nreads, prev, qrows>>

\* AuthorsTable.read_id_maps: self.alink_map = {} and then
\* db.conn.execute('SELECT id, name, sort, link FROM authors')
AuthorsTable_read_id_maps_query(t) ==
    /\ kind = "AuthorsTable"
    /\ pc[t] = "id_query"
    /\ alink_map' = EmptyDict
    /\ \/ \E rs \in SeqsUpTo(AuthorRows, MaxIdRows) :
            /\ cursor' = [cursor EXCEPT ![t] = rs]
            /\ qrows' = [qrows EXCEPT ![t].ids = rs]
            /\ pc' = [pc EXCEPT ![t] = "id_rows"]
            /\ UNCHANGED outcome
       \/ /\ Raise(t, "DatabaseError")
          /\ UNCHANGED qrows
    /\ UNCHANGED <<kind, meta, hasattrs, id_map, extra_map, col_book_map,
                   book_col_map, nreads, prev>>

\* self.id_map[row[0]] = row[1]
\* self.extra_map[row[0]] = row[2] if row[2] else author_to_author_sort(row[1])
\* self.alink_map[row[0]] = row[3]
AuthorsTable_read_id_maps_row(t) ==
    /\ kind = "AuthorsTable"
    /\ pc[t] = "id_rows"
    /\ cursor[t] # <<>>
    /\ LET row == Head(cursor[t]) IN
         /\ id_map' = dict_set(id_map, row[1], row[2])
         /\ extra_map' = dict_set(extra_map, row[1],
                            IF Truthy(row[3]) THEN row[3]
                            ELSE author_to_author_sort(row[2]))
         /\ alink_map' = dict_set(alink_map, row[1], row[4])
    /\ cursor' = [cursor EXCEPT ![t] = Tail(cursor[t])]
    /\ UNCHANGED <<kind, meta, hasattrs, col_book_map, book_col_map, pc,
                   outcome, nreads, prev, qrows>>

\* FormatsTable.read_id_maps: pass
FormatsTable_read_id_maps(t) ==
    /\ kind = "FormatsTable"
    /\ pc[t] = "id_query"
    /\ pc' = [pc EXCEPT ![t] = "link_query"]
    /\ UNCHANGED <<kind, meta, hasattrs, maps, cursor, outcome, nreads, prev, qrows>>

\* read_id_maps returns (its for loop is exhausted); read() calls read_maps
read_id_maps_return(t) ==
    /\ kind \in {"ManyToOneTable", "ManyToManyTable", "AuthorsTable"}
    /\ pc[t] = "id_rows"
    /\ cursor[t] = <<>>
    /\ pc' = [pc EXCEPT ![t] = "link_query"]
    /\ UNCHANGED <<kind, meta, hasattrs, maps, cursor, outcome, nreads, prev, qrows>>

\* read_maps of ManyToOneTable and ManyToManyTable:
\* db.conn.execute('SELECT book, link_column FROM link_table')
read_maps_query(t) ==
    /\ kind \in {"ManyToOneTable", "ManyToManyTable", "AuthorsTable"}
    /\ pc[t] = "link_query"
    /\ \/ \E rs \in SeqsUpTo(LinkRows, MaxRows) :
            /\ cursor' = [cursor EXCEPT ![t] = rs]
            /\ qrows' = [qrows EXCEPT ![t].rows = rs]
            /\ pc' = [pc EXCEPT ![t] = "link_rows"]
            /\ UNCHANGED outcome
       \/ /\ Raise(t, "DatabaseError")
          /\ UNCHANGED qrows
    /\ UNCHANGED <<kind, meta, hasattrs, maps, nreads, prev>>

\* ManyToOneTable.read_maps, one iteration:
\*   if row[1] not in self.col_book_map: self.col_book_map[row[1]] = []
\*   self.col_book_map.append(row[0])
\*   self.book_col_map[row[0]] = row[1]
ManyToOneTable_read_maps_row(t) ==
    /\ kind = "ManyToOneTable"
    /\ pc[t] = "link_rows"
    /\ cursor[t] # <<>>
    /\ LET row == Head(cursor[t])
           app == dict_append(dict_setdefault_list(col_book_map, row[2]), row[1])
       IN  /\ col_book_map' = app.d
           /\ IF app.raised
              THEN /\ Raise(t, "AttributeError")
                   /\ UNCHANGED book_col_map
              ELSE /\ book_col_map' = dict_set(book_col_map, row[1], row[2])
                   /\ cursor' = [cursor EXCEPT ![t] = Tail(cursor[t])]
                   /\ UNCHANGED <<pc, outcome>>
    /\ UNCHANGED <<kind, meta, hasattrs, id_map, extra_map, alink_map,
                   nreads, prev, qrows>>

\* ManyToManyTable.read_maps (also AuthorsTable's), one iteration:
\*   if row[1] not in self.col_book_map: self.col_book_map[row[1]] = []
\*   self.col_book_map.append(row[0])
\*   if row[0] not in self.book_col_map: self.book_col_map[row[0]] = []
\*   self.book_col_map[row[0]].append(row[1])
ManyToManyTable_read_maps_row(t) ==
    /\ kind \in {"ManyToManyTable", "AuthorsTable"}
    /\ pc[t] = "link_rows"
    /\ cursor[t] # <<>>
    /\ LET row == Head(cursor[t])
           app == dict_append(dict_setdefault_list(col_book_map, row[2]), row[1])
       IN  /\ col_book_map' = app.d
           /\ IF app.raised
              THEN /\ Raise(t, "AttributeError")
                   /\ UNCHANGED book_col_map
              ELSE /\ book_col_map' =
                        list_append_at(dict_setdefault_list(book_col_map, row[1]),
                                       row[1], row[2])
                   /\ cursor' = [cursor EXCEPT ![t] = Tail(cursor[t])]
                   /\ UNCHANGED <<pc, outcome>>
    /\ UNCHANGED <<kind, meta, hasattrs, id_map, extra_map, alink_map,
                   nreads, prev, qrows>>

\* FormatsTable.read_maps: db.conn.execute('SELECT book, format, name FROM data')
FormatsTable_read_maps_query(t) ==
    /\ kind = "FormatsTable"
    /\ pc[t] = "link_query"
    /\ \/ \E rs \in SeqsUpTo(FormatRows, MaxRows) :
            /\ cursor' = [cursor EXCEPT ![t] = rs]
            /\ qrows' = [qrows EXCEPT ![t].rows = rs]
            /\ pc' = [pc EXCEPT ![t] = "link_rows"]
            /\ UNCHANGED outcome
       \/ /\ Raise(t, "DatabaseError")
          /\ UNCHANGED qrows
    /\ UNCHANGED <<kind, meta, hasattrs, maps, nreads, prev>>

\* FormatsTable.read_maps, one iteration:
\*   if row[1] is not None:
\*       if row[1] not in self.col_book_map: self.col_book_map[row[1]] = []
\*       self.col_book_map.append(row[0])
\*       if row[0] not in self.book_col_map: self.book_col_map[row[0]] = []
\*       self.book_col_map[row[0]].append((row[1], row[2]))
FormatsTable_read_maps_row(t) ==
    /\ kind = "FormatsTable"
    /\ pc[t] = "link_rows"
    /\ cursor[t] # <<>>
    /\ LET row == Head(cursor[t])
           app == dict_append(dict_setdefault_list(col_book_map, row[2]), row[1])
       IN  IF row[2] = Null
           THEN /\ cursor' = [cursor EXCEPT ![t] = Tail(cursor[t])]
                /\ UNCHANGED <<col_book_map, book_col_map, pc, outcome>>
           ELSE /\ col_book_map' = app.d
                /\ IF app.raised
                   THEN /\ Raise(t, "AttributeError")
                        /\ UNCHANGED book_col_map
                   ELSE /\ book_col_map' =
                             list_append_at(dict_setdefault_list(book_col_map, row[1]),
                                            row[1], <<row[2], row[3]>>)
                        /\ cursor' = [cursor EXCEPT ![t] = Tail(cursor[t])]
                        /\ UNCHANGED <<pc, outcome>>
    /\ UNCHANGED <<kind, meta, hasattrs, id_map, extra_map, alink_map,
                   nreads, prev, qrows>>

\* read_maps returns (its for loop is exhausted), and so does read()
read_maps_return(t) ==
    /\ kind \in LinkedKinds
    /\ pc[t] = "link_rows"
    /\ cursor[t] = <<>>
    /\ Return(t)
    /\ UNCHANGED <<kind, meta, hasattrs, maps, nreads, prev, qrows>>

----------------------------------------------------------------------------
(* Initial states and specifications *)

OneToOneConfigs ==
    {[kind |-> "OneToOneTable", name |-> "custom", datatype |-> dt] :
        dt \in {"bool", "datetime", "text"}}

InitWith(threads, configs) ==
    /\ \E c \in configs :
         /\ kind = c.kind
         /\ meta = [name |-> c.name, datatype |-> c.datatype]
    /\ hasattrs = FALSE
    /\ id_map = EmptyDict
    /\ extra_map = EmptyDict
    /\ alink_map = EmptyDict
    /\ col_book_map = EmptyDict
    /\ book_col_map = EmptyDict
    /\ pc = [t \in threads |-> "idle"]
    /\ cursor = [t \in threads |-> <<>>]
    /\ outcome = [t \in threads |-> "none"]
    /\ nreads = 0
    /\ prev = [hasattrs |-> FALSE, id_map |-> EmptyDict, extra_map |-> EmptyDict,
               col_book_map |-> EmptyDict, book_col_map |-> EmptyDict,
               outcome |-> "none"]
    /\ qrows = [t \in threads |-> NoRows]

InitOneToOne == InitWith({1}, OneToOneConfigs)

NextOneToOne ==
    \/ \E t \in Threads : OneToOneTable_read_reset(t)
    \/ \E t \in Threads : OneToOneTable_read_query(t)
    \/ \E t \in Threads : OneToOneTable_read_row(t)
    \/ \E t \in Threads : OneToOneTable_read_return(t)

SpecOneToOne == InitOneToOne /\ [][NextOneToOne]_vars

LinkedConfigs ==
    {[kind |-> "ManyToOneTable", name |-> "series", datatype |-> "text"],
     [kind |-> "ManyToManyTable", name |-> "tags", datatype |-> "text"],
     [kind |-> "AuthorsTable", name |-> "authors", datatype |-> "text"],
     [kind |-> "FormatsTable", name |-> "formats", datatype |-> "text"]}

InitLinked == InitWith({1}, LinkedConfigs)

NextLinked ==
    \/ \E t \in Threads : ManyToOneTable_read_reset(t)
    \/ \E t \in Threads : ManyToOneTable_read_id_maps_query(t)
    \/ \E t \in Threads : ManyToOneTable_read_id_maps_row(t)
    \/ \E t \in Threads : AuthorsTable_read_id_maps_query(t)
    \/ \E t \in Threads : AuthorsTable_read_id_maps_row(t)
    \/ \E t \in Threads : FormatsTable_read_id_maps(t)
    \/ \E t \in Threads : read_id_maps_return(t)
    \/ \E t \in Threads : read_maps_query(t)
    \/ \E t \in Threads : ManyToOneTable_read_maps_row(t)
    \/ \E t \in Threads : ManyToManyTable_read_maps_row(t)
    \/ \E t \in Threads : FormatsTable_read_maps_query(t)
    \/ \E t \in Threads : FormatsTable_read_maps_row(t)
    \/ \E t \in Threads : read_maps_return(t)

SpecLinked == InitLinked /\ [][NextLinked]_vars


(* Two callers of read() on the same table object.  tables.py takes no lock, *)
(* so the steps of the two calls interleave freely.                         *)

ConcConfigs ==
    {[kind |-> "OneToOneTable", name |-> "custom", datatype |-> "text"],
     [kind |-> "ManyToOneTable", name |-> "series", datatype |-> "text"]}

InitConc == InitWith({1, 2}, ConcConfigs)

NextConc ==
    \/ \E t \in Threads : OneToOneTable_read_reset(t)
    \/ \E t \in Threads : OneToOneTable_read_query(t)
    \/ \E t \in Threads : OneToOneTable_read_row(t)
    \/ \E t \in Threads : OneToOneTable_read_return(t)
    \/ \E t \in Threads : ManyToOneTable_read_reset(t)
    \/ \E t \in Threads : ManyToOneTable_read_id_maps_query(t)
    \/ \E t \in Threads : ManyToOneTable_read_id_maps_row(t)
    \/ \E t \in Threads : read_id_maps_return(t)
    \/ \E t \in Threads : read_maps_query(t)
    \/ \E t \in Threads : ManyToOneTable_read_maps_row(t)
    \/ \E t \in Threads : read_maps_return(t)

SpecConc == InitConc /\ [][NextConc]_vars

----------------------------------------------------------------------------
(* Vocabulary of the properties *)

\* read() of thread t has ended, normally or with an exception
Finished(t) == pc[t] = "idle" /\ outcome[t] # "none"

Failed(t) == pc[t] = "idle" /\ outcome[t] \in {"DatabaseError", "AttributeError"}

\* the backing store answered every query of t's read()
Answered(t) == Finished(t) /\ outcome[t] # "DatabaseError"

KeysOf(rows, col) == {rows[i][col] : i \in DOMAIN rows}

\* index of the last row whose column col holds k
LastIndex(rows, col, k) ==
    CHOOSE i \in DOMAIN rows :
        /\ rows[i][col] = k
        /\ \A j \in DOMAIN rows : j > i => rows[j][col] # k

\* dict.get(k): the value, or None for a missing key
Lookup(d, k) == IF k \in DOMAIN d THEN d[k] ELSE Null

\* v in d[k]
InList(d, k, v) == k \in DOMAIN d /\ \E i \in DOMAIN d[k] : d[k][i] = v

\* the forward map a complete OneToOneTable build over rows yields
OneToOneBuild(rows) ==
    [b \in KeysOf(rows, 1) |-> adapt(meta, rows[LastIndex(rows, 1, b)][2])]

----------------------------------------------------------------------------
(* Properties of OneToOneTable, checked under SpecOneToOne *)

\* C10: after a successful OneToOneTable.read the keys of book_col_map are
\* exactly the book ids of the rows returned, each book maps to adapt of the
\* raw value of its last row, and nothing of an earlier load is left.
C10_OneToOneLoaded ==
    \A t \in Threads :
        (kind = "OneToOneTable" /\ Finished(t) /\ outcome[t] = "returned") =>
            /\ DOMAIN book_col_map = KeysOf(qrows[t].rows, 1)
            /\ \A b \in DOMAIN book_col_map :
                 book_col_map[b] =
                   adapt(meta, qrows[t].rows[LastIndex(qrows[t].rows, 1, b)][2])

\* C10 witness: a successful reload whose rows give one book two different
\* values and leave out a book that the previous load had.
C10_Witness ==
    \E t \in Threads :
        /\ kind = "OneToOneTable" /\ Finished(t) /\ outcome[t] = "returned"
        /\ prev.outcome = "returned"
        /\ \E b \in DOMAIN prev.book_col_map : b \notin KeysOf(qrows[t].rows, 1)
        /\ Len(qrows[t].rows) = 2
        /\ qrows[t].rows[1][1] = qrows[t].rows[2][1]
        /\ adapt(meta, qrows[t].rows[1][2]) # adapt(meta, qrows[t].rows[2][2])

\* C7: in a table whose datatype is bool, a row (book, null) is stored as
\* null and every other row as the truth value of its raw value.
C7_BoolNullStaysNull ==
    \A t \in Threads :
        (kind = "OneToOneTable" /\ meta.datatype = "bool"
           /\ Finished(t) /\ outcome[t] = "returned") =>
            \A b \in KeysOf(qrows[t].rows, 1) :
                LET raw == qrows[t].rows[LastIndex(qrows[t].rows, 1, b)][2] IN
                    Lookup(book_col_map, b) =
                        IF raw = Null THEN Null ELSE BoolVal(Truthy(raw))

\* C3 (the previously Loaded case): when read() fails on a table whose last
\* read() had succeeded, the maps are those of the previous snapshot.
C3_FailedReadKeepsSnapshot ==
    \A t \in Threads :
        (Failed(t) /\ prev.outcome = "returned") =>
            /\ book_col_map = prev.book_col_map
            /\ col_book_map = prev.col_book_map
            /\ id_map = prev.id_map

\* C4: while a reload of a Loaded table is iterating its rows, a lookup of
\* any book returns what the old snapshot or the complete new snapshot
\* returns for that book.
C4_ReaderSeesOldOrNew ==
    \A t \in Threads :
        (kind = "OneToOneTable" /\ pc[t] = "rows" /\ prev.outcome = "returned") =>
            \A b \in Books :
                Lookup(book_col_map, b) \in
                    {Lookup(prev.book_col_map, b),
                     Lookup(OneToOneBuild(qrows[t].rows), b)}

----------------------------------------------------------------------------
(* Properties of the link tables, checked under SpecLinked *)

\* C1: on a ManyToManyTable, a read() whose queries were answered completes,
\* and afterwards book b is in col_book_map[a] exactly when a is in
\* book_col_map[b], for every book b and attribute id a.
C1_ManyToManyBidirectional ==
    \A t \in Threads :
        (kind = "ManyToManyTable" /\ Answered(t)) =>
            /\ outcome[t] = "returned"
            /\ \A b \in Books, a \in Attrs :
                 InList(col_book_map, a, b) <=> InList(book_col_map, b, a)

\* C2: on a ManyToOneTable, a read() whose queries were answered reaches the
\* Loaded state, every book of the link rows has its forward entry, and every
\* book b with book_col_map[b] = a is an element of the list col_book_map[a].
C2_ManyToOneInverse ==
    \A t \in Threads :
        (kind = "ManyToOneTable" /\ Answered(t)) =>
            /\ outcome[t] = "returned"
            /\ DOMAIN book_col_map = KeysOf(qrows[t].rows, 1)
            /\ \A b \in DOMAIN book_col_map :
                 InList(col_book_map, book_col_map[b], b)

\* the (format, name) pairs of book b in rows, in row order, null formats skipped
RECURSIVE FormatsOfBook(_, _)
FormatsOfBook(rows, b) ==
    IF rows = <<>> THEN <<>>
    ELSE LET r == Head(rows) IN
         (IF r[2] # Null /\ r[1] = b THEN <<(<<r[2], r[3]>>)>> ELSE <<>>)
             \o FormatsOfBook(Tail(rows), b)

\* the books of the rows with format f, in row order
RECURSIVE BooksOfFormat(_, _)
BooksOfFormat(rows, f) ==
    IF rows = <<>> THEN <<>>
    ELSE LET r == Head(rows) IN
         (IF r[2] = f THEN <<r[1]>> ELSE <<>>) \o BooksOfFormat(Tail(rows), f)

KeptFormatRows(rows) == SelectSeq(rows, LAMBDA r : r[2] # Null)

\* C8: FormatsTable.read over answered queries skips rows with a null format,
\* maps each book to the (format, name) pairs of its other rows in row order,
\* maps each format to the books of its rows in row order, and leaves id_map
\* empty.
C8_FormatsInSourceOrder ==
    \A t \in Threads :
        (kind = "FormatsTable" /\ Answered(t)) =>
            LET kept == KeptFormatRows(qrows[t].rows) IN
            /\ outcome[t] = "returned"
            /\ book_col_map =
                 [b \in KeysOf(kept, 1) |-> FormatsOfBook(qrows[t].rows, b)]
            /\ col_book_map =
                 [f \in KeysOf(kept, 2) |-> BooksOfFormat(qrows[t].rows, f)]
            /\ id_map = EmptyDict

\* C9: once the id-map pass of AuthorsTable is over, id_map[id] of every
\* author row is its name adapted by the authors rule: '|' replaced by ','
\* and a null or empty name stored as null.
C9_AuthorsNameAdapted ==
    \A t \in Threads :
        (kind = "AuthorsTable" /\ pc[t] \in {"link_query", "link_rows"}) =>
            \A id \in KeysOf(qrows[t].ids, 1) :
                Lookup(id_map, id) =
                    adapt(meta, qrows[t].ids[LastIndex(qrows[t].ids, 1, id)][2])

----------------------------------------------------------------------------
(* Properties of concurrent reloads, checked under SpecConc *)

\* the id_map a complete ManyToOneTable id-map pass over rows yields
ManyToOneIdBuild(rows) ==
    LET kept == SelectSeq(rows, LAMBDA r : Truthy(r[2])) IN
        [id \in KeysOf(kept, 1) |-> adapt(meta, kept[LastIndex(kept, 1, id)][2])]

\* C5: two read() calls on the same table never interleave, so once both
\* have returned the maps are those of one complete build: of the rows
\* returned to the one call or of the rows returned to the other, never a
\* merge of the two.
C5_BuildsSerialized ==
    (\A t \in Threads : Finished(t) /\ outcome[t] = "returned") =>
        \E t \in Threads :
            /\ kind = "OneToOneTable" =>
                 book_col_map = OneToOneBuild(qrows[t].rows)
            /\ kind = "ManyToOneTable" =>
                 id_map = ManyToOneIdBuild(qrows[t].ids)

====
